---- MODULE Spec2Model ----
(***************************************************************************)
(* A model of the CORS decision engine of spin-contrib-http               *)
(* (src/src/cors/{config,cors,router,responsebuilder}.rs).                *)
(*                                                                         *)
(* Strings are sequences of one-character strings, so that the string     *)
(* functions the code uses (to_lowercase, split_whitespace, split, trim,  *)
(* contains) are computed character by character.  An Option<T> is a      *)
(* sequence of length at most one: None is << >>, Some(v) is << v >>.     *)
(***************************************************************************)
EXTENDS Integers, Sequences, FiniteSets, TLC

VARIABLES cors_config, req, res

vars == <<cors_config, req, res>>

(***************************************************************************)
(* Bounds of the model.                                                    *)
(***************************************************************************)
\* longest configured string enumerated for the pure matchers
MaxAllowedLen == 3
\* longest request-side string enumerated for the pure matchers
MaxRequestedLen == 3
\* longest configured origin list enumerated for the handlers
MaxCfgLen == 2
\* longest request origin enumerated for the handlers
MaxReqLen == 2

(***************************************************************************)
(* Option<T>                                                               *)
(***************************************************************************)
None == << >>

Some(v) == << v >>

is_some(o) == Len(o) > 0

is_none(o) == Len(o) = 0

unwrap(o) == o[1]

\* Option::unwrap_or
unwrap_or(o, d) == IF is_some(o) THEN o[1] ELSE d

(***************************************************************************)
(* Strings                                                                 *)
(***************************************************************************)
\* all strings over alphabet A of length at most n
StringsUpTo(A, n) == UNION {[1..k -> A] : k \in 0..n}

\* char::is_whitespace, for the characters of the model
is_whitespace(c) == c = " "

\* char::to_lowercase, for the characters of the model
to_lowercase_char(c) ==
    CASE c = "A" -> "a"
      [] c = "N" -> "n"
      [] c = "U" -> "u"
      [] c = "L" -> "l"
      [] c = "P" -> "p"
      [] c = "G" -> "g"
      [] OTHER -> c

\* char::to_uppercase, for the characters of the model
to_uppercase_char(c) ==
    CASE c = "a" -> "A"
      [] c = "n" -> "N"
      [] c = "u" -> "U"
      [] c = "l" -> "L"
      [] c = "p" -> "P"
      [] c = "g" -> "G"
      [] OTHER -> c

\* str::to_lowercase
to_lowercase(s) == [i \in 1..Len(s) |-> to_lowercase_char(s[i])]

\* str::to_uppercase
to_uppercase(s) == [i \in 1..Len(s) |-> to_uppercase_char(s[i])]

\* str::is_empty
is_empty(s) == Len(s) = 0

NotWhitespace(c) == ~is_whitespace(c)

\* s.split_whitespace().collect::<String>(): the words of s, concatenated,
\* which is s with every whitespace character removed
split_whitespace_collect(s) == SelectSeq(s, NotWhitespace)

RECURSIVE trim_start(_)
\* str::trim_start
trim_start(s) ==
    IF Len(s) > 0 /\ is_whitespace(s[1]) THEN trim_start(Tail(s)) ELSE s

RECURSIVE trim_end(_)
\* str::trim_end
trim_end(s) ==
    IF Len(s) > 0 /\ is_whitespace(s[Len(s)])
    THEN trim_end(SubSeq(s, 1, Len(s) - 1))
    ELSE s

\* str::trim
trim(s) == trim_end(trim_start(s))

RECURSIVE split_from(_, _, _)
\* the pieces of cur followed by s, cur being the piece under way
split_from(s, sep, cur) ==
    IF Len(s) = 0 THEN << cur >>
    ELSE IF s[1] = sep THEN << cur >> \o split_from(Tail(s), sep, << >>)
    ELSE split_from(Tail(s), sep, Append(cur, s[1]))

\* str::split(char).collect::<Vec<&str>>(): "" gives [""], "a," gives ["a", ""]
split(s, sep) == split_from(s, sep, << >>)

\* Vec::contains / slice::contains
vec_contains(v, x) == \E i \in 1..Len(v) : v[i] = x

\* str::contains(&str): substring test; the empty pattern is always contained
str_contains(hay, needle) ==
    \E i \in 1..(Len(hay) - Len(needle) + 1) :
        SubSeq(hay, i, i + Len(needle) - 1) = needle

(***************************************************************************)
(* src/src/cors/cors.rs: the constants                                     *)
(***************************************************************************)
ALL_METHODS == << "*" >>

ALL_HEADERS == << "*" >>

ALL_ORIGINS == << "*" >>

NO_ORIGINS == << "n", "u", "l", "l" >>

(***************************************************************************)
(* src/src/cors/cors.rs: is_origin_allowed                                 *)
(***************************************************************************)
\* the defect of an earlier revision: the origin is searched in the list as
\* a substring
is_origin_allowed_substring(allowed_origins, origin) ==
    IF allowed_origins = NO_ORIGINS THEN FALSE
    ELSE IF allowed_origins = ALL_ORIGINS THEN TRUE
    ELSE str_contains(split_whitespace_collect(to_lowercase(allowed_origins)),
                      trim(to_lowercase(origin)))

\* a slip that drops the wildcard test: "*" is then read as a list
is_origin_allowed_no_wildcard(allowed_origins, origin) ==
    IF allowed_origins = NO_ORIGINS THEN FALSE
    ELSE LET lowered == split_whitespace_collect(to_lowercase(allowed_origins))
             entries == split(lowered, ",")
         IN  vec_contains(entries, trim(to_lowercase(origin)))

is_origin_allowed(allowed_origins, origin) ==
    IF allowed_origins = NO_ORIGINS THEN FALSE
    ELSE IF allowed_origins = ALL_ORIGINS THEN TRUE
    ELSE LET lowered == split_whitespace_collect(to_lowercase(allowed_origins))
             entries == split(lowered, ",")
         IN  vec_contains(entries, trim(to_lowercase(origin)))

(***************************************************************************)
(* src/src/cors/cors.rs: is_method_allowed                                 *)
(***************************************************************************)
\* a slip that accepts as soon as one requested method is allowed
is_method_allowed_any(allowed_methods, requested_methods) ==
    IF is_empty(requested_methods) \/ is_empty(allowed_methods) THEN FALSE
    ELSE IF allowed_methods = ALL_METHODS THEN TRUE
    ELSE LET allowed   == split(split_whitespace_collect(to_uppercase(allowed_methods)), ",")
             requested == split(split_whitespace_collect(to_uppercase(requested_methods)), ",")
         IN  \E i \in 1..Len(requested) : vec_contains(allowed, requested[i])

\* a slip that tests the wildcard before the empty strings
is_method_allowed_wildcard_first(allowed_methods, requested_methods) ==
    IF allowed_methods = ALL_METHODS THEN TRUE
    ELSE IF is_empty(requested_methods) \/ is_empty(allowed_methods) THEN FALSE
    ELSE LET allowed   == split(split_whitespace_collect(to_uppercase(allowed_methods)), ",")
             requested == split(split_whitespace_collect(to_uppercase(requested_methods)), ",")
         IN  \A i \in 1..Len(requested) : vec_contains(allowed, requested[i])

is_method_allowed(allowed_methods, requested_methods) ==
    IF is_empty(requested_methods) \/ is_empty(allowed_methods) THEN FALSE
    ELSE IF allowed_methods = ALL_METHODS THEN TRUE
    ELSE LET allowed   == split(split_whitespace_collect(to_uppercase(allowed_methods)), ",")
             requested == split(split_whitespace_collect(to_uppercase(requested_methods)), ",")
         IN  \A i \in 1..Len(requested) : vec_contains(allowed, requested[i])

(***************************************************************************)
(* The request and the configuration                                       *)
(***************************************************************************)
\* a spin_sdk Request, as far as the engine reads it: its method and the two
\* headers Origin and Access-Control-Request-Method (Option<String>)
Request(method, origin, acrm) ==
    [method |-> method, origin |-> origin, acrm |-> acrm]

\* the CorsConfig struct
CorsConfig(allowed_origins, allowed_methods, allowed_headers, allow_credentials, max_age) ==
    [allowed_origins   |-> allowed_origins,
     allowed_methods   |-> allowed_methods,
     allowed_headers   |-> allowed_headers,
     allow_credentials |-> allow_credentials,
     max_age           |-> max_age]

\* no call has returned yet
NoResult == [fn |-> "none"]

\* the call named did not return: it panicked
Panic(in) == [fn |-> "panic", in |-> in]

(***************************************************************************)
(* src/src/cors/config.rs: CorsConfig::new                                 *)
(***************************************************************************)
\* a constructor that upper-cases the methods and keeps their whitespace
CorsConfig_new_keeps_whitespace(allowed_origins, allowed_methods, allowed_headers, allow_credentials, max_age) ==
    CorsConfig(IF is_empty(allowed_origins) THEN NO_ORIGINS ELSE allowed_origins,
               to_uppercase(allowed_methods),
               allowed_headers,
               allow_credentials,
               max_age)

\* a constructor that stores the origins as given, without the default
CorsConfig_new_no_default(allowed_origins, allowed_methods, allowed_headers, allow_credentials, max_age) ==
    CorsConfig(allowed_origins,
               split_whitespace_collect(to_uppercase(allowed_methods)),
               allowed_headers,
               allow_credentials,
               max_age)

CorsConfig_new(allowed_origins, allowed_methods, allowed_headers, allow_credentials, max_age) ==
    LET origin == IF is_empty(allowed_origins) THEN NO_ORIGINS ELSE allowed_origins
    IN  CorsConfig(origin,
                   split_whitespace_collect(to_uppercase(allowed_methods)),
                   allowed_headers,
                   allow_credentials,
                   max_age)

(***************************************************************************)
(* Formatting: format!("{}", bool) and format!("{}", u32)                  *)
(***************************************************************************)
format_bool(b) ==
    IF b THEN << "t", "r", "u", "e" >> ELSE << "f", "a", "l", "s", "e" >>

Digits == << "0", "1", "2", "3", "4", "5", "6", "7", "8", "9" >>

RECURSIVE format_u32(_)
format_u32(n) ==
    IF n < 10 THEN << Digits[n + 1] >>
    ELSE Append(format_u32(n \div 10), Digits[(n % 10) + 1])

(***************************************************************************)
(* Header names (the http crate's constants, as to_string() gives them)    *)
(***************************************************************************)
ACCESS_CONTROL_ALLOW_ORIGIN == "access-control-allow-origin"

ACCESS_CONTROL_ALLOW_CREDENTIALS == "access-control-allow-credentials"

ACCESS_CONTROL_ALLOW_METHODS == "access-control-allow-methods"

ACCESS_CONTROL_ALLOW_HEADERS == "access-control-allow-headers"

ACCESS_CONTROL_MAX_AGE == "access-control-max-age"

VARY == "vary"

\* the value of the Vary header: "Origin"
VaryOrigin == << "O", "r", "i", "g", "i", "n" >>

(***************************************************************************)
(* Header values                                                           *)
(***************************************************************************)
\* stands for a byte of a header value that is not valid UTF-8
InvalidByte == "<ff>"

\* HeaderValue::as_str: None for a value that is not valid text
as_str(v) ==
    IF \E i \in 1..Len(v) : v[i] = InvalidByte THEN None ELSE Some(v)

\* HeaderValue::string(String::default()), the stand-in for a missing header
default_header_value == << >>

(***************************************************************************)
(* src/src/request.rs: is_preflight_request, get_header_value_as_string    *)
(***************************************************************************)
\* a slip that takes every request with an Origin for a preflight
is_preflight_request_any_method(r) == is_some(r.origin)

is_preflight_request(r) == r.method = "OPTIONS" /\ is_some(r.origin)

\* get_header_value_as_string panics: as_str() is None and is unwrapped
get_header_value_as_string_panics(h) ==
    is_none(as_str(unwrap_or(h, default_header_value)))

\* get_header_value_as_string, h being the header looked up
get_header_value_as_string(h) == unwrap(as_str(unwrap_or(h, default_header_value)))

(***************************************************************************)
(* src/src/cors/cors.rs: get_origin_header_value, build_cors_headers       *)
(***************************************************************************)
\* the behaviour of the earlier revisions: the configured value is sent
get_origin_header_value_configured(allowed_origins, r) ==
    LET origin_request_header_value == unwrap_or(r.origin, << >>)
    IN  IF allowed_origins = ALL_ORIGINS THEN allowed_origins
        ELSE IF str_contains(allowed_origins, origin_request_header_value)
             THEN origin_request_header_value
        ELSE NO_ORIGINS

get_origin_header_value(allowed_origins, r) ==
    LET origin_request_header_value == unwrap_or(r.origin, << >>)
    IN  IF allowed_origins = ALL_ORIGINS THEN origin_request_header_value
        ELSE IF str_contains(allowed_origins, origin_request_header_value)
             THEN origin_request_header_value
        ELSE NO_ORIGINS

\* requested_origin of build_cors_headers: the Origin header as text, ""
\* when it is missing or not valid text
requested_origin(r) ==
    unwrap_or(as_str(unwrap_or(r.origin, default_header_value)), << >>)

\* the behaviour of the earlier revisions: the credentials header is sent
\* whether or not the origin is allowed
origin_headers_always_credentials(r, cors_config_) ==
    (IF is_origin_allowed(cors_config_.allowed_origins, requested_origin(r))
     THEN << << ACCESS_CONTROL_ALLOW_ORIGIN,
                get_origin_header_value(cors_config_.allowed_origins, r) >> >>
     ELSE << >>)
    \o << << ACCESS_CONTROL_ALLOW_CREDENTIALS,
             format_bool(cors_config_.allow_credentials) >> >>

\* the headers pushed when the origin is allowed
origin_headers(r, cors_config_) ==
    IF is_origin_allowed(cors_config_.allowed_origins, requested_origin(r))
    THEN << << ACCESS_CONTROL_ALLOW_ORIGIN,
               get_origin_header_value(cors_config_.allowed_origins, r) >>,
            << ACCESS_CONTROL_ALLOW_CREDENTIALS,
               format_bool(cors_config_.allow_credentials) >> >>
    ELSE << >>

\* a slip that answers with the method the request asked for
preflight_headers_requested(r, cors_config_) ==
    IF ~is_preflight_request(r) THEN << >>
    ELSE (IF is_some(cors_config_.max_age)
          THEN << << ACCESS_CONTROL_MAX_AGE, format_u32(unwrap(cors_config_.max_age)) >> >>
          ELSE << >>)
         \o << << ACCESS_CONTROL_ALLOW_METHODS, unwrap_or(r.acrm, << >>) >>,
               << ACCESS_CONTROL_ALLOW_HEADERS, cors_config_.allowed_headers >> >>

\* the headers pushed for a preflight request
preflight_headers(r, cors_config_) ==
    IF ~is_preflight_request(r) THEN << >>
    ELSE (IF is_some(cors_config_.max_age)
          THEN << << ACCESS_CONTROL_MAX_AGE, format_u32(unwrap(cors_config_.max_age)) >> >>
          ELSE << >>)
         \o << << ACCESS_CONTROL_ALLOW_METHODS, cors_config_.allowed_methods >>,
               << ACCESS_CONTROL_ALLOW_HEADERS, cors_config_.allowed_headers >> >>

\* a slip that sends Vary only with an allowed origin
build_cors_headers_vary_when_allowed(r, cors_config_) ==
    IF is_none(r.origin) THEN << >>
    ELSE origin_headers(r, cors_config_)
         \o (IF /\ is_origin_allowed(cors_config_.allowed_origins, requested_origin(r))
                 /\ cors_config_.allowed_origins # ALL_ORIGINS
                 /\ cors_config_.allowed_origins # NO_ORIGINS
              THEN << << VARY, VaryOrigin >> >>
              ELSE << >>)
         \o preflight_headers(r, cors_config_)

\* a slip that pushes Vary before the origin headers
build_cors_headers_vary_first(r, cors_config_) ==
    IF is_none(r.origin) THEN << >>
    ELSE (IF /\ cors_config_.allowed_origins # ALL_ORIGINS
             /\ cors_config_.allowed_origins # NO_ORIGINS
          THEN << << VARY, VaryOrigin >> >>
          ELSE << >>)
         \o origin_headers(r, cors_config_)
         \o preflight_headers(r, cors_config_)

build_cors_headers(r, cors_config_) ==
    IF is_none(r.origin) THEN << >>
    ELSE origin_headers(r, cors_config_)
         \o (IF /\ cors_config_.allowed_origins # ALL_ORIGINS
                 /\ cors_config_.allowed_origins # NO_ORIGINS
              THEN << << VARY, VaryOrigin >> >>
              ELSE << >>)
         \o preflight_headers(r, cors_config_)

\* build_cors_headers panics: the origin is allowed, so that
\* get_origin_header_value is called, which unwraps as_str() of a value
\* that is not valid text
build_cors_headers_panics(r, cors_config_) ==
    /\ is_some(r.origin)
    /\ is_origin_allowed(cors_config_.allowed_origins, requested_origin(r))
    /\ is_none(as_str(unwrap_or(r.origin, default_header_value)))

\* build_cors_headers as router.rs and responsebuilder.rs call it, with the
\* request's method and its origin as a string: an empty origin gives no
\* header, any other is the Origin header of the request
build_cors_headers_of(request_method, request_origin, cors_config_) ==
    IF is_empty(request_origin) THEN << >>
    ELSE build_cors_headers(Request(request_method, Some(request_origin), None),
                            cors_config_)

(***************************************************************************)
(* Responses                                                               *)
(***************************************************************************)
\* a spin_sdk Response: status, headers, body (() is the empty body)
Response(status, headers, body) ==
    [status |-> status, headers |-> headers, body |-> body]

EmptyBody == << >>

\* Response::header(name).is_some()
has_header(response, name) ==
    \E i \in 1..Len(response.headers) : response.headers[i][1] = name

\* Response::header(name): the value of the header of that name
header(response, name) ==
    IF has_header(response, name)
    THEN LET i == CHOOSE k \in 1..Len(response.headers) :
                     /\ response.headers[k][1] = name
                     /\ \A j \in 1..(k - 1) : response.headers[j][1] # name
         IN  Some(response.headers[i][2])
    ELSE None

(***************************************************************************)
(* src/src/cors/router.rs: options_handler                                 *)
(***************************************************************************)
\* the origin test of options_handler: TRUE when it answers 403
origin_forbidden(cors_config_, req_origin) ==
    \/ /\ cors_config_.allowed_origins # ALL_ORIGINS
       /\ \/ cors_config_.allowed_origins = NO_ORIGINS
          \/ ~str_contains(cors_config_.allowed_origins, req_origin)
    \/ is_empty(req_origin)

\* the method test of options_handler: TRUE when it answers 405
method_refused(cors_config_, requested_method) ==
    \/ is_empty(requested_method)
    \/ ~is_method_allowed(cors_config_.allowed_methods, requested_method)

\* a slip that only refuses a missing Access-Control-Request-Method
options_handler_method_unchecked(r, cors_config_) ==
    LET req_origin       == unwrap_or(r.origin, << >>)
        requested_method == unwrap_or(r.acrm, << >>)
    IN  IF origin_forbidden(cors_config_, req_origin)
        THEN Response(403, << >>, EmptyBody)
        ELSE IF is_empty(requested_method)
        THEN Response(405, << >>, EmptyBody)
        ELSE Response(204,
                      build_cors_headers_of(r.method, req_origin, cors_config_),
                      EmptyBody)

options_handler(r, cors_config_) ==
    LET req_origin       == unwrap_or(r.origin, << >>)
        requested_method == unwrap_or(r.acrm, << >>)
    IN  IF origin_forbidden(cors_config_, req_origin)
        THEN Response(403, << >>, EmptyBody)
        ELSE IF method_refused(cors_config_, requested_method)
        THEN Response(405, << >>, EmptyBody)
        ELSE Response(204,
                      build_cors_headers_of(r.method, req_origin, cors_config_),
                      EmptyBody)

\* options_handler panics: it unwraps as_str() of the Origin value, and, once
\* the origin has passed, of the Access-Control-Request-Method value
options_handler_panics(r, cors_config_) ==
    LET origin_value == unwrap_or(r.origin, default_header_value)
        method_value == unwrap_or(r.acrm, default_header_value)
    IN  \/ is_none(as_str(origin_value))
        \/ /\ ~origin_forbidden(cors_config_, origin_value)
           /\ is_none(as_str(method_value))

(***************************************************************************)
(* src/src/cors/responsebuilder.rs: build_with_cors                        *)
(***************************************************************************)
\* build_with_cors on a ResponseBuilder holding the wrapped response;
\* ResponseBuilder::headers sets the headers of the response
build_with_cors(builder, request_method, request_origin, cors_config_) ==
    LET rejected ==
            /\ ~is_empty(request_origin)
            /\ cors_config_.allowed_origins # ALL_ORIGINS
            /\ ~is_origin_allowed(cors_config_.allowed_origins, request_origin)
        headers == build_cors_headers_of(request_method, request_origin, cors_config_)
    IN  IF rejected
        THEN Response(403, headers, EmptyBody)
        ELSE Response(builder.status, headers, builder.body)

(***************************************************************************)
(* SpecOrigin: is_origin_allowed over every configured string and origin   *)
(***************************************************************************)
OriginChars == {"a", "A", ",", " ", "*"}

\* the deny-all sentinel in the spellings a configuration may use, and the
\* serialized opaque origin a browser sends
NullSpellings ==
    {NO_ORIGINS, << "N", "U", "L", "L" >>, << "N", "u", "l", "l" >>}

AllowedOriginsInputs == StringsUpTo(OriginChars, MaxAllowedLen) \cup NullSpellings

OriginInputs == StringsUpTo(OriginChars, MaxRequestedLen) \cup NullSpellings

InitOrigin ==
    /\ \E a \in AllowedOriginsInputs :
          cors_config = CorsConfig(a, ALL_METHODS, ALL_HEADERS, FALSE, None)
    /\ \E o \in OriginInputs : req = Request("GET", Some(o), None)
    /\ res = NoResult

CallIsOriginAllowed ==
    /\ res = NoResult
    /\ res' = [fn  |-> "is_origin_allowed",
               ret |-> is_origin_allowed(cors_config.allowed_origins, unwrap(req.origin))]
    /\ UNCHANGED <<cors_config, req>>

NextOrigin == CallIsOriginAllowed

SpecOrigin == InitOrigin /\ [][NextOrigin]_vars

(***************************************************************************)
(* What the origin claims say, stated without the code's own split: an     *)
(* entry of a comma-separated list is a maximal comma-free stretch of it.  *)
(***************************************************************************)
\* the stretches <<i, j>> of s between two commas (or an end of s)
Segments(s) ==
    {seg \in (1..(Len(s) + 1)) \X (0..Len(s)) :
        /\ seg[2] >= seg[1] - 1
        /\ (seg[1] = 1 \/ s[seg[1] - 1] = ",")
        /\ (seg[2] = Len(s) \/ s[seg[2] + 1] = ",")
        /\ \A k \in seg[1]..seg[2] : s[k] # ","}

\* the comma-separated entries of s, as written
RawEntries(s) == {SubSeq(s, seg[1], seg[2]) : seg \in Segments(s)}

\* the entries of a configured origin list: whitespace removed, lower case
OriginEntries(allowed) ==
    {to_lowercase(split_whitespace_collect(e)) : e \in RawEntries(allowed)}

IsWildcardOrigins(allowed) == allowed = ALL_ORIGINS

IsExplicitOriginList(allowed) == allowed # ALL_ORIGINS /\ allowed # NO_ORIGINS

OriginCallDone == res.fn = "is_origin_allowed"

\* C4: with an explicit list configured, is_origin_allowed is true exactly
\* when the origin, trimmed and lower-cased, equals one entry of the list
\* (whitespace removed, lower-cased); containing an entry, or being contained
\* in one, is not enough.
C4_ExactEntryMatch ==
    (OriginCallDone /\ IsExplicitOriginList(cors_config.allowed_origins)) =>
        (res.ret <=> to_lowercase(trim(unwrap(req.origin)))
                        \in OriginEntries(cors_config.allowed_origins))

\* an origin that contains the single configured entry is rejected
C4_Witness ==
    /\ OriginCallDone
    /\ cors_config.allowed_origins = << "a" >>
    /\ unwrap(req.origin) = << "a", "a" >>
    /\ res.ret = FALSE

\* C5: with the wildcard configured, every non-empty origin is allowed.
C5_WildcardAllowsNonEmpty ==
    (OriginCallDone /\ IsWildcardOrigins(cors_config.allowed_origins)
                    /\ ~is_empty(unwrap(req.origin))) => res.ret

C5_Witness ==
    /\ OriginCallDone
    /\ IsWildcardOrigins(cors_config.allowed_origins)
    /\ unwrap(req.origin) = << "a" >>
    /\ res.ret = TRUE

\* C6: with "null" configured in any letter case, no origin is allowed.
C6_NullAnyCaseDeniesAll ==
    (OriginCallDone /\ to_lowercase(cors_config.allowed_origins) = NO_ORIGINS) =>
        ~res.ret

\* C7: the empty origin is never allowed, whatever is configured.
C7_EmptyOriginNeverAllowed ==
    (OriginCallDone /\ is_empty(unwrap(req.origin))) => ~res.ret

(***************************************************************************)
(* SpecMethod: is_method_allowed over every configured and requested       *)
(* methods string                                                          *)
(***************************************************************************)
MethodChars == {"P", "p", "G", ",", " "}

\* the configured methods: any short string, the wildcard, and the wildcard
\* written with a blank
AllowedMethodsInputs ==
    StringsUpTo(MethodChars, MaxAllowedLen) \cup {ALL_METHODS, << "*", " " >>}

RequestedMethodsInputs == StringsUpTo(MethodChars, MaxRequestedLen) \cup {ALL_METHODS}

InitMethod ==
    /\ \E a \in AllowedMethodsInputs :
          cors_config = CorsConfig(ALL_ORIGINS, a, ALL_HEADERS, FALSE, None)
    /\ \E m \in RequestedMethodsInputs : req = Request("OPTIONS", None, Some(m))
    /\ res = NoResult

CallIsMethodAllowed ==
    /\ res = NoResult
    /\ res' = [fn  |-> "is_method_allowed",
               ret |-> is_method_allowed(cors_config.allowed_methods, unwrap(req.acrm))]
    /\ UNCHANGED <<cors_config, req>>

NextMethod == CallIsMethodAllowed

SpecMethod == InitMethod /\ [][NextMethod]_vars

\* the tokens of a methods string: its comma-separated entries, each with
\* its whitespace removed and in upper case
MethodTokens(methods) ==
    {to_uppercase(split_whitespace_collect(e)) : e \in RawEntries(methods)}

MethodCallDone == res.fn = "is_method_allowed"

\* C8: with configured methods that are neither empty nor the wildcard, and
\* a non-empty requested string, is_method_allowed is true exactly when the
\* set of requested tokens is a subset of the set of configured tokens.
C8_MethodSubset ==
    (/\ MethodCallDone
     /\ cors_config.allowed_methods # ALL_METHODS
     /\ ~is_empty(cors_config.allowed_methods)
     /\ ~is_empty(unwrap(req.acrm))) =>
        (res.ret <=> MethodTokens(unwrap(req.acrm))
                        \subseteq MethodTokens(cors_config.allowed_methods))

\* two requested methods of which only one is configured are refused
C8_Witness ==
    /\ MethodCallDone
    /\ cors_config.allowed_methods = << "P" >>
    /\ unwrap(req.acrm) = << "p", ",", "G" >>
    /\ res.ret = FALSE

\* C9: an empty requested or configured string is refused even against the
\* wildcard; a non-empty requested string against the wildcard is allowed.
C9_EmptyRefusedWildcardAllowed ==
    MethodCallDone =>
        /\ (is_empty(unwrap(req.acrm)) \/ is_empty(cors_config.allowed_methods))
               => ~res.ret
        /\ (~is_empty(unwrap(req.acrm)) /\ cors_config.allowed_methods = ALL_METHODS)
               => res.ret

\* the empty requested string against the wildcard
C9_Witness ==
    /\ MethodCallDone
    /\ cors_config.allowed_methods = ALL_METHODS
    /\ is_empty(unwrap(req.acrm))
    /\ res.ret = FALSE

(***************************************************************************)
(* SpecHeaders: build_cors_headers over configurations and requests        *)
(***************************************************************************)
CfgOriginChars == {"a", "A", ",", " "}

ReqOriginChars == {"a", "A", ","}

\* configured origins: lists, the wildcard, the deny-all sentinel and the
\* sentinel in upper case
CfgOriginsInputs ==
    StringsUpTo(CfgOriginChars, MaxCfgLen)
        \cup {ALL_ORIGINS, NO_ORIGINS, << "N", "U", "L", "L" >>}

\* the Origin header of a request: absent, any short string, "*", or a value
\* that is not valid text
ReqOriginInputs ==
    {None, Some(ALL_ORIGINS), Some(<< InvalidByte >>)}
        \cup {Some(o) : o \in StringsUpTo(ReqOriginChars, MaxReqLen)}

\* the Access-Control-Request-Method header of a request
ReqMethodInputs ==
    {None, Some(<< >>), Some(<< "P" >>), Some(<< "g" >>), Some(<< "P", ",", "G" >>),
     Some(<< InvalidByte >>)}

\* configured methods, as passed to the constructor
CfgMethodsInputs ==
    {ALL_METHODS, << >>, << "P" >>, << "G" >>, << "p", ",", " ", "g" >>}

MaxAgeInputs == {None, Some(300)}

RequestMethods == {"OPTIONS", "GET"}

InitHeaders ==
    /\ \E o \in CfgOriginsInputs, m \in {ALL_METHODS, << "P" >>},
          h \in {ALL_HEADERS, << "x" >>}, c \in BOOLEAN, a \in MaxAgeInputs :
          cors_config = CorsConfig(o, m, h, c, a)
    /\ \E method \in RequestMethods, o \in ReqOriginInputs,
          m \in {None, Some(<< "g" >>)} :
          req = Request(method, o, m)
    /\ res = NoResult

CallBuildCorsHeaders ==
    /\ res = NoResult
    /\ res' = IF build_cors_headers_panics(req, cors_config)
              THEN Panic("build_cors_headers")
              ELSE [fn  |-> "build_cors_headers",
                    ret |-> Response(200, build_cors_headers(req, cors_config), EmptyBody)]
    /\ UNCHANGED <<cors_config, req>>

NextHeaders == CallBuildCorsHeaders

SpecHeaders == InitHeaders /\ [][NextHeaders]_vars

HeadersCallDone == res.fn = "build_cors_headers"

\* the list holds the header Vary: Origin
HasVaryOrigin(response) ==
    \E i \in 1..Len(response.headers) : response.headers[i] = << VARY, VaryOrigin >>

\* C10 as claimed: for every request, Vary: Origin is in the assembled
\* headers exactly when the configured origins are an explicit list.
C10_VaryIffExplicitList ==
    HeadersCallDone =>
        (HasVaryOrigin(res.ret) <=> IsExplicitOriginList(cors_config.allowed_origins))

\* C10 as amended: for every request that carries a non-empty Origin header,
\* Vary: Origin is in the assembled headers exactly when the configured
\* origins are an explicit list, whether or not the origin is allowed.
C10_VaryIffExplicitListWithOrigin ==
    (HeadersCallDone /\ is_some(req.origin) /\ ~is_empty(unwrap(req.origin))) =>
        (HasVaryOrigin(res.ret) <=> IsExplicitOriginList(cors_config.allowed_origins))

\* an explicit list that does not allow the origin of the request
C10_Witness ==
    /\ HeadersCallDone
    /\ cors_config.allowed_origins = << "a" >>
    /\ req.origin = Some(<< "A", "A" >>)
    /\ ~has_header(res.ret, ACCESS_CONTROL_ALLOW_ORIGIN)
    /\ HasVaryOrigin(res.ret)

\* C11: whenever is_origin_allowed accepts the origin of the request, the
\* Access-Control-Allow-Origin sent is that origin exactly as the request
\* gave it, never the configured list and never the deny-all sentinel.
C11_AllowOriginEchoesRequest ==
    (/\ HeadersCallDone
     /\ is_some(req.origin)
     /\ is_origin_allowed(cors_config.allowed_origins, unwrap(req.origin))) =>
        header(res.ret, ACCESS_CONTROL_ALLOW_ORIGIN) = Some(unwrap(req.origin))

\* C12 as claimed: with allow_credentials set, no assembled header list has
\* Access-Control-Allow-Origin: *.
C12_NoWildcardWithCredentials ==
    (HeadersCallDone /\ cors_config.allow_credentials) =>
        header(res.ret, ACCESS_CONTROL_ALLOW_ORIGIN) # Some(ALL_ORIGINS)

\* C12 as amended: with allow_credentials set, and a request whose own
\* Origin is not the text "*", no assembled header list has
\* Access-Control-Allow-Origin: *.
C12_NoWildcardWithCredentialsUnlessSent ==
    (/\ HeadersCallDone
     /\ cors_config.allow_credentials
     /\ req.origin # Some(ALL_ORIGINS)) =>
        header(res.ret, ACCESS_CONTROL_ALLOW_ORIGIN) # Some(ALL_ORIGINS)

\* the wildcard policy with credentials answers with the origin it was sent
C12_Witness ==
    /\ HeadersCallDone
    /\ cors_config.allow_credentials
    /\ cors_config.allowed_origins = ALL_ORIGINS
    /\ req.origin = Some(<< "a" >>)
    /\ header(res.ret, ACCESS_CONTROL_ALLOW_ORIGIN) = Some(<< "a" >>)

\* the origin of the request is there and is_origin_allowed accepts it
RequestOriginAllowed ==
    /\ is_some(req.origin)
    /\ is_origin_allowed(cors_config.allowed_origins, unwrap(req.origin))

\* C13: Access-Control-Allow-Credentials is sent, with the value "true" or
\* "false" of allow_credentials, exactly when the origin of the request is
\* allowed; for an origin that is there and is not allowed neither it nor
\* Access-Control-Allow-Origin is sent.
C13_CredentialsIffOriginAllowed ==
    HeadersCallDone =>
        /\ has_header(res.ret, ACCESS_CONTROL_ALLOW_CREDENTIALS) <=> RequestOriginAllowed
        /\ RequestOriginAllowed =>
               header(res.ret, ACCESS_CONTROL_ALLOW_CREDENTIALS)
                   = Some(IF cors_config.allow_credentials
                          THEN << "t", "r", "u", "e" >>
                          ELSE << "f", "a", "l", "s", "e" >>)
        /\ (is_some(req.origin) /\ ~RequestOriginAllowed) =>
               /\ ~has_header(res.ret, ACCESS_CONTROL_ALLOW_ORIGIN)
               /\ ~has_header(res.ret, ACCESS_CONTROL_ALLOW_CREDENTIALS)

\* an origin the list does not allow, with credentials configured
C13_Witness ==
    /\ HeadersCallDone
    /\ cors_config.allow_credentials
    /\ cors_config.allowed_origins = << "a" >>
    /\ req.origin = Some(<< "a", "a" >>)
    /\ ~has_header(res.ret, ACCESS_CONTROL_ALLOW_CREDENTIALS)

\* C14: with the origin of the request absent or empty the assembled list
\* is empty, for every policy and every request method.
C14_NoOriginNoHeaders ==
    (HeadersCallDone /\ (is_none(req.origin) \/ is_empty(unwrap(req.origin)))) =>
        res.ret.headers = << >>

\* C16: on a preflight request Access-Control-Allow-Methods is sent with
\* the configured allowed_methods and Access-Control-Allow-Headers with the
\* configured allowed_headers, whatever the request asked for.
C16_PreflightAdvertisesPolicy ==
    (HeadersCallDone /\ req.method = "OPTIONS" /\ is_some(req.origin)) =>
        /\ header(res.ret, ACCESS_CONTROL_ALLOW_METHODS) = Some(cors_config.allowed_methods)
        /\ header(res.ret, ACCESS_CONTROL_ALLOW_HEADERS) = Some(cors_config.allowed_headers)

\* a preflight asking for a method other than the configured one
C16_Witness ==
    /\ HeadersCallDone
    /\ req.method = "OPTIONS"
    /\ req.origin = Some(<< "a" >>)
    /\ req.acrm = Some(<< "g" >>)
    /\ cors_config.allowed_methods = << "P" >>
    /\ cors_config.allowed_headers = << "x" >>
    /\ header(res.ret, ACCESS_CONTROL_ALLOW_METHODS) = Some(<< "P" >>)

(***************************************************************************)
(* Spec: a configuration built by CorsConfig::new, then requests handled   *)
(***************************************************************************)
Init ==
    /\ \E o \in CfgOriginsInputs, m \in CfgMethodsInputs,
          c \in BOOLEAN, a \in MaxAgeInputs :
          cors_config = CorsConfig_new(o, m, ALL_HEADERS, c, a)
    /\ req = Request("GET", None, None)
    /\ res = NoResult

\* the router hands a request to options_handler.  Handling a request leaves
\* the configuration as it is, so a second request would start from the same
\* configuration: a behaviour handles one.
OptionsHandler ==
    /\ res = NoResult
    /\ \E method \in RequestMethods, o \in ReqOriginInputs, m \in ReqMethodInputs :
        /\ req' = Request(method, o, m)
        /\ res' = IF options_handler_panics(req', cors_config)
                  THEN Panic("options_handler")
                  ELSE [fn  |-> "options_handler",
                        ret |-> options_handler(req', cors_config)]
        /\ UNCHANGED cors_config

\* the responses a route handler hands to build_with_cors
WrappedBuilders ==
    {Response(200, << << "content-type", << "t" >> >> >>, << "b" >>),
     Response(404, << >>, EmptyBody)}

\* the component decorates the response of the router, as the example does:
\* the origin is read with get_header_value_as_string, then build_with_cors
\* is called with the method and that origin
BuildWithCors ==
    /\ res = NoResult
    /\ \E method \in RequestMethods, o \in ReqOriginInputs, b \in WrappedBuilders :
        /\ req' = Request(method, o, None)
        /\ res' = IF get_header_value_as_string_panics(o)
                  THEN Panic("get_header_value_as_string")
                  ELSE [fn      |-> "build_with_cors",
                        wrapped |-> b,
                        ret     |-> build_with_cors(b, method,
                                                    get_header_value_as_string(o),
                                                    cors_config)]
        /\ UNCHANGED cors_config

Next == OptionsHandler \/ BuildWithCors

Spec == Init /\ [][Next]_vars

\* options_handler has answered a preflight (OPTIONS) request
PreflightAnswered == res.fn = "options_handler" /\ req.method = "OPTIONS"

\* the Origin and Access-Control-Request-Method values, "" when absent
ReqOrigin == unwrap_or(req.origin, << >>)

ReqMethod == unwrap_or(req.acrm, << >>)

\* a response with the given status, no body and no header
BareResponse(response, status) ==
    /\ response.status = status
    /\ response.body = EmptyBody
    /\ response.headers = << >>

\* C1: a preflight is answered 403, without body or header, whenever its
\* origin is absent or empty, or the configured origins are not the wildcard
\* and are the deny-all sentinel or have no entry equal to the origin;
\* whatever Access-Control-Request-Method says.
C1_ForbiddenOrigin ==
    (/\ PreflightAnswered
     /\ \/ is_empty(ReqOrigin)
        \/ /\ cors_config.allowed_origins # ALL_ORIGINS
           /\ \/ cors_config.allowed_origins = NO_ORIGINS
              \/ to_lowercase(trim(ReqOrigin))
                     \notin OriginEntries(cors_config.allowed_origins)) =>
        BareResponse(res.ret, 403)

\* C2: a preflight whose origin passes the origin test of the handler is
\* answered 405, without body or header, whenever its
\* Access-Control-Request-Method is absent or empty or is_method_allowed
\* refuses it.
C2_MethodNotAllowed ==
    (/\ PreflightAnswered
     /\ ~origin_forbidden(cors_config, ReqOrigin)
     /\ \/ is_empty(ReqMethod)
        \/ ~is_method_allowed(cors_config.allowed_methods, ReqMethod)) =>
        BareResponse(res.ret, 405)

\* an accepted origin with a requested method that is not configured
C2_Witness ==
    /\ PreflightAnswered
    /\ cors_config.allowed_origins = << "a" >>
    /\ cors_config.allowed_methods = << "P" >>
    /\ req.origin = Some(<< "a" >>)
    /\ req.acrm = Some(<< "g" >>)
    /\ res.ret.status = 405

\* C3: a preflight with an allowed origin and an allowed requested method is
\* answered 204 with Access-Control-Allow-Methods and
\* Access-Control-Allow-Headers, and with Access-Control-Max-Age exactly
\* when max_age is configured.
C3_AcceptedPreflight ==
    (/\ PreflightAnswered
     /\ ~is_empty(ReqOrigin)
     /\ is_origin_allowed(cors_config.allowed_origins, ReqOrigin)
     /\ ~is_empty(ReqMethod)
     /\ is_method_allowed(cors_config.allowed_methods, ReqMethod)) =>
        /\ res.ret.status = 204
        /\ has_header(res.ret, ACCESS_CONTROL_ALLOW_METHODS)
        /\ has_header(res.ret, ACCESS_CONTROL_ALLOW_HEADERS)
        /\ has_header(res.ret, ACCESS_CONTROL_MAX_AGE) <=> is_some(cors_config.max_age)

\* build_with_cors has returned
DecoratorDone == res.fn = "build_with_cors"

\* the response has one of the three headers of a preflight answer
HasPreflightHeader(response) ==
    \/ has_header(response, ACCESS_CONTROL_MAX_AGE)
    \/ has_header(response, ACCESS_CONTROL_ALLOW_METHODS)
    \/ has_header(response, ACCESS_CONTROL_ALLOW_HEADERS)

C20_NeverPanics == res.fn # "panic"

(***************************************************************************)
(* SpecConfig: CorsConfig::new over every argument                         *)
(***************************************************************************)
ConfigOriginChars == {"a", "A", ",", " "}
ConfigMethodChars == {"p", "G", " ", ","}

\* the allowed_origins argument: any short string, the empty one included
ConfigOriginArgs == StringsUpTo(ConfigOriginChars, MaxCfgLen) \cup {ALL_ORIGINS}

\* the allowed_methods argument
ConfigMethodArgs == StringsUpTo(ConfigMethodChars, MaxCfgLen) \cup {ALL_METHODS}

ConfigHeaderArgs == {ALL_HEADERS, << >>}

\* the configuration of the example component
InitConfig ==
    /\ cors_config = CorsConfig_new(ALL_ORIGINS, ALL_METHODS, ALL_HEADERS, FALSE, Some(3600))
    /\ req = Request("GET", None, None)
    /\ res = NoResult

\* res remembers the arguments the constructor was called with
CallCorsConfigNew ==
    /\ res = NoResult
    /\ \E o \in ConfigOriginArgs, m \in ConfigMethodArgs, h \in ConfigHeaderArgs,
          c \in BOOLEAN, a \in MaxAgeInputs :
        /\ cors_config' = CorsConfig_new(o, m, h, c, a)
        /\ res' = [fn |-> "CorsConfig::new", args |-> CorsConfig(o, m, h, c, a)]
        /\ UNCHANGED req

NextConfig == CallCorsConfigNew

SpecConfig == InitConfig /\ [][NextConfig]_vars

ConfigBuilt == res.fn = "CorsConfig::new"

\* C18: CorsConfig::new called with an empty allowed_origins produces a
\* configuration whose allowed_origins is NO_ORIGINS; called with a
\* non-empty allowed_origins it stores that string unchanged.
C18_EmptyOriginsBecomeNoOrigins ==
    ConfigBuilt =>
        /\ is_empty(res.args.allowed_origins) =>
               cors_config.allowed_origins = NO_ORIGINS
        /\ ~is_empty(res.args.allowed_origins) =>
               cors_config.allowed_origins = res.args.allowed_origins

\* the constructor was called with "" and the configuration holds "null"
C18_Witness ==
    /\ ConfigBuilt
    /\ res.args.allowed_origins = << >>
    /\ cors_config.allowed_origins = << "n", "u", "l", "l" >>

\* C19 as claimed: in every configuration CorsConfig::new produces, neither
\* allowed_origins nor allowed_methods is the empty string.
C19_NeitherFieldEmpty ==
    ConfigBuilt =>
        /\ ~is_empty(cors_config.allowed_origins)
        /\ ~is_empty(cors_config.allowed_methods)

\* C19 as amended: allowed_origins is never the empty string; allowed_methods
\* has no sentinel and is the empty string exactly when the methods given
\* have no character other than whitespace.
C19_OriginsNeverEmptyMethodsMayBe ==
    ConfigBuilt =>
        /\ ~is_empty(cors_config.allowed_origins)
        /\ is_empty(cors_config.allowed_methods)
               <=> (\A i \in 1..Len(res.args.allowed_methods) :
                       is_whitespace(res.args.allowed_methods[i]))

\* both arguments empty of content: the origins become "null", the methods
\* stay empty
C19_Witness ==
    /\ ConfigBuilt
    /\ res.args.allowed_origins = << >>
    /\ res.args.allowed_methods = << " " >>
    /\ cors_config.allowed_origins = NO_ORIGINS
    /\ cors_config.allowed_methods = << >>

(***************************************************************************)
(* build_with_cors and options_handler, one call (Spec)                    *)
(***************************************************************************)
\* the origin string usage_sample hands to build_with_cors
DecoratorOrigin == get_header_value_as_string(req.origin)

\* the condition of responsebuilder.rs:23-25, on the origin of the request
DecoratorRejects ==
    /\ ~is_empty(DecoratorOrigin)
    /\ cors_config.allowed_origins # ALL_ORIGINS
    /\ ~is_origin_allowed(cors_config.allowed_origins, DecoratorOrigin)

\* C21: build_with_cors sets the status to 403 and empties the body exactly
\* when the origin is non-empty, the policy is not the wildcard and
\* is_origin_allowed rejects the origin; in every other case the status and
\* the body are those of the wrapped response and the headers are those of
\* the wrapped response with the assembled CORS headers added.
C21_DecoratorFrame ==
    DecoratorDone =>
        IF DecoratorRejects
        THEN /\ res.ret.status = 403
             /\ res.ret.body = EmptyBody
        ELSE /\ res.ret.status = res.wrapped.status
             /\ res.ret.body = res.wrapped.body
             /\ res.ret.headers =
                    res.wrapped.headers
                        \o build_cors_headers_of(req.method, DecoratorOrigin, cors_config)

\* C26: every 204 of options_handler carries Access-Control-Allow-Origin
\* with the request's origin as its value.
C26_AcceptedPreflightEchoesOrigin ==
    (PreflightAnswered /\ res.ret.status = 204) =>
        header(res.ret, ACCESS_CONTROL_ALLOW_ORIGIN) = Some(ReqOrigin)

(***************************************************************************)
(* SpecService: the component of examples/cors-usage, one configuration    *)
(* shared by the requests in flight                                        *)
(***************************************************************************)
\* the requests one service instance has in flight at a time
MaxInFlight == 2

\* a copy that forgets the max age
CorsConfig_clone_without_max_age(c) ==
    CorsConfig(c.allowed_origins, c.allowed_methods, c.allowed_headers,
               c.allow_credentials, None)

\* src/src/cors/config.rs: impl Clone for CorsConfig
CorsConfig_clone(c) ==
    CorsConfig(c.allowed_origins, c.allowed_methods, c.allowed_headers,
               c.allow_credentials, c.max_age)

\* register_options_handler: the configuration the handler closure owns
register_options_handler(cors_config_) == CorsConfig_clone(cors_config_)

\* the route handler of the example: Response::new(200, ())
handler == Response(200, << >>, EmptyBody)

\* Router::handle: OPTIONS goes to the registered options handler, GET to
\* the route handler
handle(r, handler_config) ==
    IF r.method = "OPTIONS" THEN options_handler(r, handler_config) ELSE handler

ServiceOrigins == {ALL_ORIGINS, << "a" >>, << "A" >>, << "a", "a" >>}

ServiceMethods == {ALL_METHODS, << "P" >>}

\* requests: a preflight with or without a requested method, or a GET, each
\* with or without an Origin
ServiceRequests ==
    {Request("OPTIONS", o, m) : o \in {None, Some(<< "a" >>)}, m \in {None, Some(<< "P" >>)}}
        \cup {Request("GET", o, None) : o \in {None, Some(<< "a" >>)}}

Idle == [stage |-> "idle"]

InFlight == 1..MaxInFlight

\* usage_sample builds the configuration and registers the options handler
InitService ==
    /\ \E o \in ServiceOrigins, m \in ServiceMethods :
          cors_config = CorsConfig_new(o, m, ALL_HEADERS, FALSE, Some(3600))
    /\ req = Request("GET", None, None)
    /\ res = [fn         |-> "usage_sample",
              built      |-> cors_config,
              handler_cfg |-> register_options_handler(cors_config),
              slots      |-> [i \in InFlight |-> Idle]]

\* the statuses options_handler gave the preflights of the same origin that
\* are through the pipeline by now
PriorPreflights(i, r) ==
    {res.slots[j].routed.status : j \in {k \in InFlight \ {i} :
                                        /\ res.slots[k].stage = "done"
                                        /\ res.slots[k].req.method = "OPTIONS"
                                        /\ res.slots[k].req.origin = r.origin}}

\* router.handle(req) for a request that arrives
Route(i) ==
    /\ res.fn = "usage_sample"
    /\ res.slots[i].stage = "idle"
    /\ \E r \in ServiceRequests :
          /\ req' = r
          /\ res' = [res EXCEPT !.slots[i] =
                        [stage  |-> "routed",
                         req    |-> r,
                         routed |-> handle(r, res.handler_cfg),
                         prior  |-> PriorPreflights(i, r)]]
    /\ UNCHANGED cors_config

\* .into_builder().build_with_cors(method, request_origin, &cfg)
Decorate(i) ==
    /\ res.fn = "usage_sample"
    /\ res.slots[i].stage = "routed"
    /\ LET slot == res.slots[i]
       IN  /\ req' = slot.req
           /\ res' = [res EXCEPT !.slots[i] =
                         [stage  |-> "done",
                          req    |-> slot.req,
                          routed |-> slot.routed,
                          prior  |-> slot.prior,
                          ret    |-> build_with_cors(slot.routed, slot.req.method,
                                                     get_header_value_as_string(slot.req.origin),
                                                     cors_config)]]
    /\ UNCHANGED cors_config

\* the response has gone out
Reply(i) ==
    /\ res.fn = "usage_sample"
    /\ res.slots[i].stage = "done"
    /\ res' = [res EXCEPT !.slots[i] = Idle]
    /\ UNCHANGED <<cors_config, req>>

NextService == \E i \in InFlight : Route(i) \/ Decorate(i) \/ Reply(i)

SpecService == InitService /\ [][NextService]_vars

ServiceRunning == res.fn = "usage_sample"

Routed(i) == ServiceRunning /\ res.slots[i].stage \in {"routed", "done"}

Decorated(i) == ServiceRunning /\ res.slots[i].stage = "done"

FollowsPreflight(i, s) ==
    /\ Decorated(i)
    /\ res.slots[i].req.method = "GET"
    /\ is_some(res.slots[i].req.origin)
    /\ ~is_empty(unwrap(res.slots[i].req.origin))
    /\ s \in res.slots[i].prior

\* C27: for the same policy and origin, when the preflight was not answered
\* 403 the actual request that follows is not turned into a 403 and gets
\* Access-Control-Allow-Origin; when the preflight was answered 403 the
\* actual request gets no Access-Control-Allow-Origin.
C27_PreflightAndActualAgree ==
    \A i \in InFlight :
        /\ (\E s \in {204, 405} : FollowsPreflight(i, s)) =>
               /\ res.slots[i].ret.status # 403
               /\ has_header(res.slots[i].ret, ACCESS_CONTROL_ALLOW_ORIGIN)
        /\ FollowsPreflight(i, 403) =>
               ~has_header(res.slots[i].ret, ACCESS_CONTROL_ALLOW_ORIGIN)

\* the response carries a header of the Access-Control-* family
HasAccessControlHeader(response) ==
    \/ has_header(response, ACCESS_CONTROL_ALLOW_ORIGIN)
    \/ has_header(response, ACCESS_CONTROL_ALLOW_CREDENTIALS)
    \/ HasPreflightHeader(response)

\* C28: a preflight that options_handler rejected with 403 or 405 leaves the
\* pipeline with that status and with no Access-Control-* header.
C28_RejectedPreflightStaysBare ==
    \A i \in InFlight :
        (/\ Decorated(i)
         /\ res.slots[i].req.method = "OPTIONS"
         /\ res.slots[i].routed.status \in {403, 405}) =>
            /\ res.slots[i].ret.status = res.slots[i].routed.status
            /\ ~HasAccessControlHeader(res.slots[i].ret)

(***************************************************************************)
(* The order of the assembled headers (SpecHeaders)                        *)
(***************************************************************************)
\* the order in which build_cors_headers pushes
HeaderOrder ==
    << ACCESS_CONTROL_ALLOW_ORIGIN, ACCESS_CONTROL_ALLOW_CREDENTIALS, VARY,
       ACCESS_CONTROL_MAX_AGE, ACCESS_CONTROL_ALLOW_METHODS,
       ACCESS_CONTROL_ALLOW_HEADERS >>

\* the place of a header name in that order, 0 for a name that is not in it
Rank(name) ==
    IF \E k \in 1..Len(HeaderOrder) : HeaderOrder[k] = name
    THEN CHOOSE k \in 1..Len(HeaderOrder) : HeaderOrder[k] = name
    ELSE 0

\* C29: the list build_cors_headers returns holds each header name at most
\* once and its entries come in the order Access-Control-Allow-Origin,
\* Access-Control-Allow-Credentials, Vary, Access-Control-Max-Age,
\* Access-Control-Allow-Methods, Access-Control-Allow-Headers.
C29_HeadersOnceAndInOrder ==
    HeadersCallDone =>
        /\ \A i \in 1..Len(res.ret.headers) : Rank(res.ret.headers[i][1]) > 0
        /\ \A i, j \in 1..Len(res.ret.headers) :
              i < j => Rank(res.ret.headers[i][1]) < Rank(res.ret.headers[j][1])

\* a preflight of an allowed origin under an explicit list with a max age:
\* all six headers
C29_Witness ==
    /\ HeadersCallDone
    /\ Len(res.ret.headers) = 6
    /\ res.ret.headers[3] = << VARY, VaryOrigin >>
    /\ res.ret.headers[6][1] = ACCESS_CONTROL_ALLOW_HEADERS

(***************************************************************************)
(* CorsConfig::new and is_method_allowed (SpecMethod)                      *)
(***************************************************************************)
\* allowed_methods as CorsConfig::new stores the string given
normalized_methods(allowed_methods) ==
    CorsConfig_new(ALL_ORIGINS, allowed_methods, ALL_HEADERS, FALSE, None).allowed_methods

\* C30: is_method_allowed gives the same result on the configured methods as
\* given and on the value CorsConfig::new stores for them, and the stored
\* value is stored unchanged when it is given to CorsConfig::new again.
C30_NormalizationKeepsDecisions ==
    MethodCallDone =>
        LET stored == normalized_methods(cors_config.allowed_methods)
        IN  /\ res.ret <=> is_method_allowed(stored, unwrap(req.acrm))
            /\ normalized_methods(stored) = stored

(***************************************************************************)
(* src/src/cookies.rs and src/src/response/cookies.rs                      *)
(***************************************************************************)
\* enum SameSite
SameSite == {"Strict", "Lax", "None"}

\* struct Cookie
Cookie(name, value, secure, http_only, same_site) ==
    [name |-> name, value |-> value, secure |-> secure,
     http_only |-> http_only, same_site |-> same_site]

SET_COOKIE == "set-cookie"

HttpOnlyAttribute == << ";", " ", "H", "t", "t", "p", "O", "n", "l", "y" >>

SecureAttribute == << ";", " ", "S", "e", "c", "u", "r", "e" >>

SameSitePrefix == << ";", " ", "S", "a", "m", "e", "S", "i", "t", "e", "=" >>

\* the text pushed by the match on same_site
SameSiteAttribute(same_site) ==
    SameSitePrefix \o
        (CASE same_site = "Strict" -> << "S", "t", "r", "i", "c", "t" >>
           [] same_site = "Lax"    -> << "L", "a", "x" >>
           [] same_site = "None"   -> << "N", "o", "n", "e" >>)

\* a to_string that takes the secure flag as given
Cookie_to_string_secure_as_given(cookie) ==
    cookie.name \o << "=" >> \o cookie.value
        \o (IF cookie.http_only THEN HttpOnlyAttribute ELSE << >>)
        \o SameSiteAttribute(cookie.same_site)
        \o (IF cookie.secure THEN SecureAttribute ELSE << >>)

\* Cookie::to_string, and the body of add_cookie of the earlier revision
Cookie_to_string(cookie) ==
    LET value1 == cookie.value
                      \o (IF cookie.http_only THEN HttpOnlyAttribute ELSE << >>)
        secure == IF cookie.same_site = "None" THEN TRUE ELSE cookie.secure
        value2 == value1 \o SameSiteAttribute(cookie.same_site)
        value3 == value2 \o (IF secure THEN SecureAttribute ELSE << >>)
    IN  cookie.name \o << "=" >> \o value3

\* build_with_cookie: the header is set on the builder, which is built
build_with_cookie(builder, cookie) ==
    Response(builder.status,
             builder.headers \o << << SET_COOKIE, Cookie_to_string(cookie) >> >>,
             builder.body)

\* add_cookie of src/src/response/cookies.rs: the builder with the header
add_cookie(builder, name, value, secure, http_only, same_site) ==
    Response(builder.status,
             builder.headers
                 \o << << SET_COOKIE,
                          Cookie_to_string(Cookie(name, value, secure, http_only, same_site)) >> >>,
             builder.body)

CookieNames == {<< "a" >>, << "i", "d" >>, << "S" >>}

CookieValues == {<< "b" >>, << >>, << "v", ";" >>}

\* ResponseBuilder::new(200), http::response::Builder::new()
NewBuilder == Response(200, << >>, EmptyBody)

InitCookie ==
    /\ cors_config = CorsConfig_new(ALL_ORIGINS, ALL_METHODS, ALL_HEADERS, FALSE, Some(3600))
    /\ req = Request("GET", None, None)
    /\ res = NoResult

\* ResponseBuilder::new(200).build_with_cookie(Cookie::new(..))
BuildWithCookie ==
    /\ res = NoResult
    /\ \E name \in CookieNames, value \in CookieValues, secure \in BOOLEAN,
          http_only \in BOOLEAN, same_site \in SameSite :
          LET cookie == Cookie(name, value, secure, http_only, same_site)
          IN  res' = [fn     |-> "build_with_cookie",
                      cookie |-> cookie,
                      ret    |-> build_with_cookie(NewBuilder, cookie)]
    /\ UNCHANGED <<cors_config, req>>

\* add_cookie(builder, name, value, secure, http_only, same_site)
AddCookie ==
    /\ res = NoResult
    /\ \E name \in CookieNames, value \in CookieValues, secure \in BOOLEAN,
          http_only \in BOOLEAN, same_site \in SameSite :
          res' = [fn     |-> "add_cookie",
                  cookie |-> Cookie(name, value, secure, http_only, same_site),
                  ret    |-> add_cookie(NewBuilder, name, value, secure, http_only, same_site)]
    /\ UNCHANGED <<cors_config, req>>

NextCookie == BuildWithCookie \/ AddCookie

SpecCookie == InitCookie /\ [][NextCookie]_vars

CookieSet == res.fn \in {"build_with_cookie", "add_cookie"}

\* s ends with the text t
EndsWith(s, t) ==
    /\ Len(s) >= Len(t)
    /\ SubSeq(s, Len(s) - Len(t) + 1, Len(s)) = t

\* C23: the Set-Cookie value is name=value, then "; HttpOnly" iff http_only,
\* then "; SameSite=Strict|Lax|None", then "; Secure" iff the secure flag is
\* set or SameSite is None.
C23_SetCookieValue ==
    CookieSet =>
        LET cookie == res.cookie
            forced == cookie.secure \/ cookie.same_site = "None"
            expected ==
                cookie.name \o << "=" >> \o cookie.value
                    \o (IF cookie.http_only THEN HttpOnlyAttribute ELSE << >>)
                    \o SameSiteAttribute(cookie.same_site)
                    \o (IF forced THEN SecureAttribute ELSE << >>)
        IN  /\ header(res.ret, SET_COOKIE) = Some(expected)
            /\ EndsWith(unwrap(header(res.ret, SET_COOKIE)), SecureAttribute) <=> forced

\* SameSite None with secure passed as false: "a=b; SameSite=None; Secure"
C23_Witness ==
    /\ res.fn = "build_with_cookie"
    /\ res.cookie = Cookie(<< "a" >>, << "b" >>, FALSE, FALSE, "None")
    /\ header(res.ret, SET_COOKIE) =
           Some(<< "a", "=", "b" >> \o SameSitePrefix \o << "N", "o", "n", "e" >>
                    \o SecureAttribute)

(***************************************************************************)
(* src/src/request.rs: get_route_segments (SpecRoute)                      *)
(***************************************************************************)
\* the length of a spin-path-info value
MaxPathLen == 4

\* a get_route_segments that keeps the first piece
get_route_segments_keep_first(path_info) ==
    IF is_none(path_info) THEN None
    ELSE IF is_none(as_str(unwrap(path_info))) THEN None
    ELSE LET header_value == unwrap(as_str(unwrap(path_info)))
         IN  IF is_empty(trim(header_value)) \/ header_value = << "/" >>
             THEN None
             ELSE Some(split(header_value, "/"))

\* get_route_segments, path_info being the spin-path-info header looked up:
\* both ? return None; segments.remove(0) drops the first piece
get_route_segments(path_info) ==
    IF is_none(path_info) THEN None
    ELSE IF is_none(as_str(unwrap(path_info))) THEN None
    ELSE LET header_value == unwrap(as_str(unwrap(path_info)))
         IN  IF is_empty(trim(header_value)) \/ header_value = << "/" >>
             THEN None
             ELSE Some(Tail(split(header_value, "/")))

PathChars == {"/", "a", "b", " "}

\* the spin-path-info header: absent, any short text, or not valid text
PathInfoInputs ==
    {None, Some(<< InvalidByte >>), Some(<< "/", InvalidByte >>)}
        \cup {Some(v) : v \in StringsUpTo(PathChars, MaxPathLen)}

\* a GET request with its spin-path-info header
RequestWithPath(path_info) ==
    [method |-> "GET", origin |-> None, acrm |-> None, path_info |-> path_info]

InitRoute ==
    /\ cors_config = CorsConfig_new(ALL_ORIGINS, ALL_METHODS, ALL_HEADERS, FALSE, Some(3600))
    /\ \E h \in PathInfoInputs : req = RequestWithPath(h)
    /\ res = NoResult

CallGetRouteSegments ==
    /\ res = NoResult
    /\ res' = [fn |-> "get_route_segments", ret |-> get_route_segments(req.path_info)]
    /\ UNCHANGED <<cors_config, req>>

NextRoute == CallGetRouteSegments

SpecRoute == InitRoute /\ [][NextRoute]_vars

RouteCallDone == res.fn = "get_route_segments"

RECURSIVE JoinPath(_)
\* the pieces written one after the other, a "/" between two
JoinPath(pieces) ==
    IF Len(pieces) = 0 THEN << >>
    ELSE IF Len(pieces) = 1 THEN pieces[1]
    ELSE pieces[1] \o << "/" >> \o JoinPath(Tail(pieces))

HasSlash(s) == \E i \in 1..Len(s) : s[i] = "/"

\* the header is absent, empty, whitespace-only or "/"
RootPath(path_info) ==
    \/ is_none(path_info)
    \/ \A i \in 1..Len(unwrap(path_info)) : is_whitespace(unwrap(path_info)[i])
    \/ unwrap(path_info) = << "/" >>

\* pieces are the "/"-separated segments of value that come after its
\* first "/": none when value has no "/"
SegmentsAfterFirstSlash(value, pieces) ==
    /\ \A k \in 1..Len(pieces) : ~HasSlash(pieces[k])
    /\ IF HasSlash(value)
       THEN /\ Len(pieces) >= 1
            /\ \E n \in 0..Len(value) :
                  /\ ~HasSlash(SubSeq(value, 1, n))
                  /\ value = SubSeq(value, 1, n) \o << "/" >> \o JoinPath(pieces)
       ELSE pieces = << >>

NotText(path_info) == is_some(path_info) /\ is_none(as_str(unwrap(path_info)))

NO_ORIGINS_earlier == << "N", "U", "L", "L" >>

\* the headers both earlier functions set, origin being the value of the
\* first
earlier_headers(origin, cors_config_) ==
    << << ACCESS_CONTROL_ALLOW_ORIGIN, origin >>,
       << ACCESS_CONTROL_ALLOW_METHODS, cors_config_.allowed_methods >>,
       << ACCESS_CONTROL_ALLOW_HEADERS, cors_config_.allowed_headers >>,
       << ACCESS_CONTROL_ALLOW_CREDENTIALS, format_bool(cors_config_.allow_credentials) >> >>
        \o (IF is_some(cors_config_.max_age)
            THEN << << ACCESS_CONTROL_MAX_AGE, format_u32(unwrap(cors_config_.max_age)) >> >>
            ELSE << >>)

\* a builder_with_cors that falls back on the sentinel of the later revision
builder_with_cors_later_sentinel(cors_config_) ==
    LET origin == IF is_empty(cors_config_.allowed_origins)
                  THEN NO_ORIGINS
                  ELSE cors_config_.allowed_origins
    IN  Response(200, earlier_headers(origin, cors_config_), EmptyBody)

\* src/src/response/cors.rs: builder_with_cors, the builder as a response
\* without a body
builder_with_cors(cors_config_) ==
    LET origin == IF is_empty(cors_config_.allowed_origins)
                  THEN NO_ORIGINS_earlier
                  ELSE cors_config_.allowed_origins
    IN  Response(200, earlier_headers(origin, cors_config_), EmptyBody)

\* src/src/cors.rs: build_with_cors(cors_config) on a ResponseBuilder
build_with_cors_earlier(builder, cors_config_) ==
    LET origin == IF is_empty(cors_config_.allowed_origins)
                  THEN NO_ORIGINS_earlier
                  ELSE cors_config_.allowed_origins
    IN  Response(builder.status, earlier_headers(origin, cors_config_), builder.body)

\* the configuration is a struct literal: any string in every field
InitEarlier ==
    /\ \E o \in CfgOriginsInputs, m \in ServiceMethods, c \in BOOLEAN, a \in MaxAgeInputs :
          cors_config = CorsConfig(o, m, ALL_HEADERS, c, a)
    /\ req = Request("GET", None, None)
    /\ res = NoResult

CallBuilderWithCors ==
    /\ res = NoResult
    /\ res' = [fn |-> "builder_with_cors", ret |-> builder_with_cors(cors_config)]
    /\ UNCHANGED <<cors_config, req>>

CallBuildWithCorsEarlier ==
    /\ res = NoResult
    /\ res' = [fn  |-> "build_with_cors(cors_config)",
               ret |-> build_with_cors_earlier(NewBuilder, cors_config)]
    /\ UNCHANGED <<cors_config, req>>

NextEarlier == CallBuilderWithCors \/ CallBuildWithCorsEarlier

SpecEarlier == InitEarlier /\ [][NextEarlier]_vars

EarlierCallDone == res.fn \in {"builder_with_cors", "build_with_cors(cors_config)"}

\* C25: in the earlier builder API the Access-Control-Allow-Origin value is
\* the configured allowed_origins as it stands, and "NULL" when the
\* configured allowed_origins is empty.
C25_EarlierAllowOriginVerbatim ==
    EarlierCallDone =>
        header(res.ret, ACCESS_CONTROL_ALLOW_ORIGIN) =
            Some(IF cors_config.allowed_origins = << >>
                 THEN << "N", "U", "L", "L" >>
                 ELSE cors_config.allowed_origins)

\* an empty allowed_origins gives "NULL"
C25_Witness ==
    /\ res.fn = "builder_with_cors"
    /\ cors_config.allowed_origins = << >>
    /\ header(res.ret, ACCESS_CONTROL_ALLOW_ORIGIN) = Some(<< "N", "U", "L", "L" >>)

====
